---- MODULE Spec2Model ----
(***************************************************************************)
(* Model of the janus-react-wrapper App component: the relay between a     *)
(* host WebView container and a Janus SIP plugin handle.                   *)
(*                                                                         *)
(* Two copies of the component are modelled, selected by `variant`:        *)
(*   "basic"  - src/unnamed/part_000 (every plugin message is relayed as   *)
(*              one SIP_STATUS host message);                              *)
(*   "tracks" - src/src/App.tsx lines 1-895 (dedicated host message per    *)
(*              plugin event, local/remote track registry).                *)
(*                                                                         *)
(* React state (useState) is modelled by one variable per state cell.      *)
(* A handler and the render that commits its state updates form one step:  *)
(* the closures of effects with a dependency list are those of the latest  *)
(* state, the closures of the effect with the empty dependency list        *)
(* (initializeJanus, attachSipPlugin, the plugin callbacks, the unmount    *)
(* cleanup) are those of the first render for ever.                        *)
(*                                                                         *)
(* JavaScript strings that the code takes apart or concatenates (proxy,    *)
(* phone number, uri) are sequences of one-character strings.              *)
(*                                                                         *)
(* The state cell isWebViewReady is written by WEBVIEW_READY and read      *)
(* nowhere, and is no dependency of any effect: it has no variable.        *)
(*                                                                         *)
(* The Janus library is the environment: for one session it calls success  *)
(* or error once while the session is being created, and error or          *)
(* destroyed once after it is up.                                          *)
(***************************************************************************)
EXTENDS Integers, Sequences, FiniteSets, Bags, TLC

(***************************************************************************)
(* Bounds of the model                                                     *)
(***************************************************************************)
\* sessions (new Janus) created in one behaviour
MaxSessions == 6
\* pending send-retry timers (setTimeout of sendToWebViewParent)
MaxTimers == 2
\* pending createOffer callbacks
MaxOffers == 1
\* the counters localVideos and remoteVideos stay within -MaxVideos..MaxVideos
MaxVideos == 1

(***************************************************************************)
(* Program constants                                                       *)
(***************************************************************************)
MAX_RECONNECT_ATTEMPTS == 3
\* default value of sendToWebViewParent's retryCount parameter
DefaultRetryCount == 3
\* delay of the reconnection timer, ms
ReconnectDelay == 5000
\* delay of the send-retry timer, ms
SendRetryDelay == 1000

(***************************************************************************)
(* JavaScript strings as sequences of characters                           *)
(***************************************************************************)
\* the value `undefined` of an optional string; no character sequence equals it
Undefined == <<"undefined">>
\* what a template literal prints for a value
TemplateText(v) == IF v = Undefined THEN <<"u","n","d","e","f","i","n","e","d">> ELSE v

SipPrefix == <<"s","i","p",":">>

IsPrefixAt(s, d, i) ==
    /\ i + Len(d) - 1 <= Len(s)
    /\ \A k \in 1..Len(d) : s[i + k - 1] = d[k]

\* String.prototype.split(d) for a non-empty separator d: the pieces of s
\* between the non-overlapping occurrences of d, scanned left to right.
RECURSIVE SplitFrom(_, _, _, _)
SplitFrom(s, d, i, start) ==
    IF i > Len(s) THEN << SubSeq(s, start, Len(s)) >>
    ELSE IF IsPrefixAt(s, d, i)
         THEN << SubSeq(s, start, i - 1) >> \o SplitFrom(s, d, i + Len(d), i + Len(d))
         ELSE SplitFrom(s, d, i + 1, start)

split(s, d) == SplitFrom(s, d, 1, 1)

\* sipCredentials.proxy?.split("sip:")[1]
proxyDomainOf(proxy) ==
    IF proxy = Undefined THEN Undefined
    ELSE LET parts == split(proxy, SipPrefix)
         IN  IF Len(parts) >= 2 THEN parts[2] ELSE Undefined

\* `sip:${phoneNumber}@${proxyDomain}`
callUri(phoneNumber, proxyDomain) ==
    SipPrefix \o TemplateText(phoneNumber) \o <<"@">> \o TemplateText(proxyDomain)


(***************************************************************************)
(* The copy for the webkit and android bridges (src/src/App.tsx from line  *)
(* 897): what its makeCall does with the proxy.                            *)
(***************************************************************************)
\* the fallback domain "103.230.84.119:5080"
WebkitFallbackDomain ==
    <<"1","0","3",".","2","3","0",".","8","4",".","1","1","9",":","5","0","8","0">>

\* sipCredentials.proxy?.split("sip:")[1] || "103.230.84.119:5080": undefined
\* and the empty string are falsy
webkitProxyDomainOf(proxy) ==
    IF proxyDomainOf(proxy) = Undefined \/ proxyDomainOf(proxy) = << >>
    THEN WebkitFallbackDomain
    ELSE proxyDomainOf(proxy)

(***************************************************************************)
(* JavaScript values of the registration payload                           *)
(***************************************************************************)
JsTrue == <<"true">>
JsFalse == <<"false">>

\* the keys of RegistrationPayload
CredFields == {"username", "displayName", "authuser", "secret", "proxy", "userAgent", "register"}

\* useState<RegistrationPayload>({})
NoCreds == [f \in CredFields |-> Undefined]

\* the proxy of the documented example, "sip:203.0.113.5:5080"
ProxyExample ==
    <<"s","i","p",":","2","0","3",".","0",".","1","1","3",".","5",":","5","0","8","0">>
\* "sip:mysip:5060", a host whose name ends in "sip", with a port
ProxySipHost == <<"s","i","p",":","m","y","s","i","p",":","5","0","6","0">>
\* the phone number of the documented example, "5551234"
PhoneExample == <<"5","5","5","1","2","3","4">>
EmptyString == << >>

\* payloads of REGISTER_SIP host messages (a key that is absent is Undefined)
CredPayloads ==
    { [NoCreds EXCEPT !.username = <<"u","1">>, !.displayName = <<"d","1">>,
                      !.authuser = <<"a","1">>, !.secret = <<"s","1">>,
                      !.proxy = ProxyExample, !.userAgent = <<"g","1">>],
      [NoCreds EXCEPT !.proxy = ProxySipHost, !.register = JsFalse],
      NoCreds }

\* payload.phoneNumber of MAKE_CALL host messages
PhoneNumbers == { Undefined, EmptyString, PhoneExample }

\* type tags of host messages; "PING" stands for every tag without a case
HostTypes == {"WEBVIEW_READY", "REGISTER_SIP", "UNREGISTER_SIP", "MAKE_CALL", "END_CALL", "PING"}

\* result.event of plugin messages; "" is a message without an event name,
\* "registration_failed" has no dedicated handling and is no CallState
NoEvent == ""
PluginEvents ==
    { NoEvent, "registered", "unregistered", "accepted", "hangup", "registration_failed" }

\* the CallState type
CallStates ==
    { "idle", "registering", "registered", "calling", "ringing", "connected", "ended",
      "error", "starting", "destroyed", "cleaned", "not_started", "initializing", "ready" }

Variants == {"basic", "tracks"}

\* the value null of sipPlugin, janus and currentCall
NoHandle == 0
NoCall == <<"null">>

\* useState<TrackState>({}): the object without keys
NoTracks == << >>

(***************************************************************************)
(* State                                                                   *)
(***************************************************************************)
VARIABLES
    variant,            \* which copy of the component runs
    mounted,            \* the component is mounted
    sipPlugin,          \* useState: the attached plugin handle, or NoHandle
    callState,          \* useState
    currentCall,        \* useState: phone number of the call, or NoCall
    isRegistered,       \* useState
    sipCredentials,     \* useState
    janus,              \* let janus: the session object, numbered, or NoHandle
    reconnectAttempts,  \* let reconnectAttempts
    session,            \* what the Janus library is doing with the session `janus`
    attach,             \* what the Janus library is doing with janus.attach
    initTimers,         \* pending setTimeout(initializeJanus, 5000)
    offers,             \* pending createOffer calls: the bag of the closures of their callbacks
    op,                 \* the last step: the handler or callback that ran, and its input
    out,                \* host messages the last step passed to sendToWebViewParent
    readyOut,           \* the render after the last step re-ran the message effect
    req,                \* plugin requests (send) and offers the last step issued
    failRun,            \* session errors since the last session success
    schedRun,           \* reconnection timers started since the last session success
    registeredOn,       \* the handle whose onmessage last reported `registered`
    bridge,             \* window.ReactNativeWebView: "ok", "absent" or "throws"
    timers,             \* pending setTimeout(sendToWebViewParent(message, n), 1000)
    attempt,            \* the last postMessage attempt
    callInProgress,     \* history: a call started by MAKE_CALL is in progress
    localTracks,        \* useState (tracks copy): track id -> stream
    remoteTracks,       \* useState (tracks copy): mid -> stream
    localVideos,        \* useState (tracks copy)
    remoteVideos        \* useState (tracks copy)

appVars == << sipPlugin, callState, currentCall, isRegistered, sipCredentials >>
libVars == << janus, reconnectAttempts, session, attach, initTimers, offers >>
stepVars == << op, out, readyOut, req >>
runVars == << failRun, schedRun, registeredOn >>
sendVars == << bridge, timers, attempt >>
trackVars == << localTracks, remoteTracks, localVideos, remoteVideos >>
vars == << variant, mounted, appVars, libVars, stepVars, runVars, sendVars,
           callInProgress, trackVars >>

\* no postMessage attempt yet
NoAttempt == [message |-> [type |-> "none"], retryCount |-> 0, tries |-> 0,
              first |-> [type |-> "none"], outcome |-> "none", scheduled |-> FALSE,
              overtaken |-> FALSE]

\* a host message {type, payload}
Msg(t, p) == [type |-> t, payload |-> p]
EmptyPayload == [none |-> TRUE]

(***************************************************************************)
(* Calls on the plugin handle                                              *)
(***************************************************************************)
NoMessage == [request |-> "none"]
\* sipPlugin.send({message}) on handle h
Send(h, m) == [method |-> "send", handle |-> h, message |-> m]
\* sipPlugin.createOffer, sipPlugin.handleRemoteJsep on handle h
Call(h, method) == [method |-> method, handle |-> h, message |-> NoMessage]

\* a useState setter: React drops the update of an unmounted component
set(cur, new) == IF mounted THEN new ELSE cur

(***************************************************************************)
(* handleRegistration                                                      *)
(***************************************************************************)
\* mutant: the spread in the other order, { ...params, ...sipCredentials }
registrationParamsStoredFirst(stored, params) ==
    [f \in CredFields |->
        IF f = "register" THEN JsTrue
        ELSE IF stored[f] # Undefined THEN stored[f] ELSE params[f]]

\* { ...sipCredentials, ...params, register: true }
registrationParams(stored, params) ==
    [f \in CredFields |->
        IF f = "register" THEN JsTrue
        ELSE IF params[f] # Undefined THEN params[f] ELSE stored[f]]

registerRequest(rp) ==
    [request |-> "register", username |-> rp.username, display_name |-> rp.displayName,
     authuser |-> rp.authuser, secret |-> rp.secret, proxy |-> rp.proxy,
     user_agent |-> rp.userAgent, register |-> JsTrue]

\* mutant: the check of isRegistered left out
registrationErrorNoRegisteredCheck ==
    IF sipPlugin = NoHandle THEN "SIP plugin not found" ELSE ""

\* mutant: the check of sipPlugin left out
registrationErrorNoHandleCheck ==
    IF isRegistered THEN "Already registered with SIP server" ELSE ""

\* the guards of handleRegistration, in the order of the code: "" when it goes on
registrationError ==
    IF sipPlugin = NoHandle THEN "SIP plugin not found"
    ELSE IF isRegistered THEN "Already registered with SIP server"
    ELSE ""

\* the copy for the webkit bridge: its handleRegistration tests the handle only
webkitRegistrationError ==
    IF sipPlugin = NoHandle THEN "SIP plugin not found" ELSE ""

\* the copy for the webkit bridge: the REGISTER_SIP message carries the
\* credentials as payload.registration
WebkitPayload(creds) == [registration |-> creds]

\* the copy for the webkit bridge: the requests its handleRegistration forwards
\* for handleRegistration(message.payload?.registration)
webkitHandleRegistration(payload) ==
    IF webkitRegistrationError # "" THEN << >>
    ELSE << Send(sipPlugin,
                 registerRequest(registrationParams(sipCredentials, payload.registration))) >>

handleRegistration(params) ==
    IF registrationError # ""
    THEN /\ out' = << Msg("REGISTRATION_ERROR", [error |-> registrationError]) >>
         /\ req' = << >>
         /\ UNCHANGED << callState, sipCredentials >>
    ELSE /\ callState' = "registering"
         /\ sipCredentials' = registrationParams(sipCredentials, params)
         /\ req' = << Send(sipPlugin, registerRequest(registrationParams(sipCredentials, params))) >>
         /\ out' = << >>

(***************************************************************************)
(* handleUnregister                                                        *)
(***************************************************************************)
\* mutant: the check of isRegistered left out
unregisterSkippedNoHandleOnly == sipPlugin = NoHandle

\* if (!sipPlugin || !isRegistered) return
unregisterSkipped == sipPlugin = NoHandle \/ ~isRegistered

handleUnregister ==
    /\ req' = IF unregisterSkipped THEN << >>
              ELSE << Send(sipPlugin, [request |-> "unregister"]) >>
    /\ out' = << >>

(***************************************************************************)
(* makeCall                                                                *)
(***************************************************************************)
\* mutant: the check of the phone number left out
callErrorNoPhoneCheck(phoneNumber) ==
    IF sipPlugin = NoHandle THEN "SIP plugin not found" ELSE ""

\* the guards of makeCall, in the order of the code: "" when it goes on
callError(phoneNumber) ==
    IF sipPlugin = NoHandle THEN "SIP plugin not found"
    ELSE IF phoneNumber = Undefined \/ phoneNumber = EmptyString THEN "Phone number is required"
    ELSE ""

\* the closure of the createOffer callbacks: what they read of makeCall's
\* variables and of the sipCredentials of its render
offerClosure(phoneNumber) ==
    [handle |-> sipPlugin, phoneNumber |-> phoneNumber,
     proxy |-> sipCredentials.proxy,
     proxyDomain |-> proxyDomainOf(sipCredentials.proxy),
     userAgent |-> IF variant = "tracks" THEN sipCredentials.userAgent ELSE Undefined]

makeCall(phoneNumber) ==
    IF callError(phoneNumber) # ""
    THEN /\ out' = << Msg("CALL_ERROR", [error |-> callError(phoneNumber), callState |-> "error"]) >>
         /\ callState' = "error"
         /\ req' = << >>
         /\ UNCHANGED << currentCall, offers >>
    ELSE /\ BagCardinality(offers) < MaxOffers
         /\ currentCall' = phoneNumber
         /\ callState' = "calling"
         /\ offers' = offers (+) SetToBag({offerClosure(phoneNumber)})
         /\ req' = << Call(sipPlugin, "createOffer") >>
         /\ out' = << >>

\* the headers of the call request: the tracks copy adds them, the basic copy has none
callHeaders(userAgent) ==
    IF variant = "tracks"
    THEN [UserAgent |-> IF userAgent = Undefined \/ userAgent = EmptyString
                        THEN <<"Janus WebRTC Client">> ELSE userAgent,
          XCallType |-> "audio"]
    ELSE [UserAgent |-> Undefined, XCallType |-> "none"]

callRequest(c) ==
    [request |-> "call", uri |-> callUri(c.phoneNumber, c.proxyDomain),
     headers |-> callHeaders(c.userAgent)]

(***************************************************************************)
(* handleWebViewMessage                                                    *)
(***************************************************************************)
\* mutant: MAKE_CALL goes to makeCall without the check of isRegistered
notRegisteredUnchecked == FALSE

\* case "MAKE_CALL": if (!isRegistered)
notRegistered == ~isRegistered

\* case "END_CALL": if (sipPlugin && currentCall)
hangupForwarded == sipPlugin # NoHandle /\ currentCall # NoCall

\* mutant: the break of case "WEBVIEW_READY" is missing
switchCaseFallThrough(type) ==
    IF type = "WEBVIEW_READY" THEN "REGISTER_SIP"
    ELSE IF type \in {"REGISTER_SIP", "UNREGISTER_SIP", "MAKE_CALL", "END_CALL"}
    THEN type ELSE "default"

\* the case of the switch a type tag selects
switchCase(type) ==
    IF type \in {"WEBVIEW_READY", "REGISTER_SIP", "UNREGISTER_SIP", "MAKE_CALL", "END_CALL"}
    THEN type ELSE "default"

handleWebViewMessage(type, creds, phoneNumber) ==
    CASE switchCase(type) = "WEBVIEW_READY" ->
            /\ out' = << >>
            /\ req' = << >>
            /\ UNCHANGED << callState, sipCredentials, currentCall, offers >>
      [] switchCase(type) = "REGISTER_SIP" ->
            /\ handleRegistration(creds)
            /\ UNCHANGED << currentCall, offers >>
      [] switchCase(type) = "UNREGISTER_SIP" ->
            /\ handleUnregister
            /\ UNCHANGED << callState, sipCredentials, currentCall, offers >>
      [] switchCase(type) = "MAKE_CALL" ->
            IF notRegistered
            THEN /\ out' = << Msg("CALL_ERROR", [error |-> "Not registered with SIP server"]) >>
                 /\ req' = << >>
                 /\ UNCHANGED << callState, sipCredentials, currentCall, offers >>
            ELSE /\ makeCall(phoneNumber)
                 /\ UNCHANGED << sipCredentials >>
      [] switchCase(type) = "END_CALL" ->
            /\ req' = IF hangupForwarded
                      THEN << Send(sipPlugin, [request |-> "hangup"]) >> ELSE << >>
            /\ out' = << >>
            /\ UNCHANGED << callState, sipCredentials, currentCall, offers >>
      [] OTHER ->
            /\ out' = << >>
            /\ req' = << >>
            /\ UNCHANGED << callState, sipCredentials, currentCall, offers >>

\* the message effect runs again, and sends REACT_APP_READY, when one of its
\* dependencies changed identity: sipPlugin, isRegistered, currentCall, or the
\* callbacks made from them and from sipCredentials (set to a new object by
\* every setSipCredentials)
messageEffectRuns(credsSet) ==
    readyOut' = ( /\ mounted
                  /\ \/ sipPlugin' # sipPlugin
                     \/ isRegistered' # isRegistered
                     \/ currentCall' # currentCall
                     \/ credsSet )

\* the message starts a call: MAKE_CALL reaches makeCall and passes its guards
callStarted(type, phoneNumber) ==
    switchCase(type) = "MAKE_CALL" /\ ~notRegistered /\ callError(phoneNumber) = ""

\* a message event of the window, handled by the listener of the latest render
HostMessage ==
    /\ UNCHANGED trackVars
    /\ mounted
    /\ \E type \in HostTypes, creds \in CredPayloads, phoneNumber \in PhoneNumbers :
         /\ type # "REGISTER_SIP" => creds = NoCreds
         /\ type # "MAKE_CALL" => phoneNumber = Undefined
         /\ handleWebViewMessage(type, creds, phoneNumber)
         /\ op' = [name |-> type, creds |-> creds, phoneNumber |-> phoneNumber]
         /\ callInProgress' = (callInProgress \/ callStarted(type, phoneNumber))
         /\ UNCHANGED << sipPlugin, isRegistered >>
         /\ messageEffectRuns(type = "REGISTER_SIP" /\ registrationError = "")
    /\ UNCHANGED << variant, mounted, janus, reconnectAttempts, session, attach, initTimers >>
    /\ UNCHANGED << runVars, sendVars >>

(***************************************************************************)
(* handleSipMessage                                                        *)
(***************************************************************************)
\* The plugin callbacks are made once, by the effect with the empty dependency
\* list, so onmessage is the handleSipMessage of the first render: the
\* sipPlugin and callState it reads are the initial values of their useState.
sipPluginAtFirstRender == NoHandle
callStateAtFirstRender == "not_started"

\* msg.error is populated
hasError(msg) == msg.error

\* mutant: setCallState(result.event) placed after the check of msg.error
sipCallStateEventLast(msg) ==
    IF variant = "tracks" /\ msg.event = "hangup" /\ ~hasError(msg) THEN "ended"
    ELSE IF msg.event # NoEvent THEN msg.event
    ELSE IF hasError(msg) THEN "error"
    ELSE callState

\* mutant: an event name that is no CallState is not taken as the call state
sipCallStateValidated(msg) ==
    IF hasError(msg) THEN "error"
    ELSE IF variant = "tracks" /\ msg.event = "hangup" THEN "ended"
    ELSE IF msg.event \in CallStates THEN msg.event
    ELSE callState

\* the call state the setCallState calls of handleSipMessage leave
sipCallState(msg) ==
    IF hasError(msg) THEN "error"
    ELSE IF variant = "tracks" /\ msg.event = "hangup" THEN "ended"
    ELSE IF msg.event # NoEvent THEN msg.event
    ELSE callState

sipIsRegistered(msg) ==
    IF hasError(msg) THEN isRegistered
    ELSE IF msg.event = "registered" THEN TRUE
    ELSE IF msg.event = "unregistered" THEN FALSE
    ELSE isRegistered

sipCurrentCall(msg) ==
    IF ~hasError(msg) /\ variant = "tracks" /\ msg.event = "hangup" THEN NoCall
    ELSE currentCall

sipErrorMessage == Msg("SIP_ERROR", [error |-> "err", callState |-> "error"])

\* basic copy: one SIP_STATUS for every message without error
sipStatusMessage(msg, closureCallState) ==
    Msg("SIP_STATUS",
        [status |-> IF msg.event # NoEvent THEN msg.event ELSE "unknown",
         data |-> msg,
         callState |-> IF msg.event # NoEvent THEN msg.event ELSE closureCallState])

\* tracks copy: the switch over result.event
sipEventMessages(msg) ==
    CASE msg.event = "registered" ->
            << Msg("REGISTRATION_SUCCESS", [status |-> "registered"]) >>
      [] msg.event = "unregistered" ->
            << Msg("UNREGISTERED", [status |-> "unregistered"]) >>
      [] msg.event = "calling" ->
            << Msg("CALLING", [status |-> "calling"]) >>
      [] msg.event = "incomingcall" ->
            << Msg("INCOMING_CALL", [from |-> "caller", hasAudio |-> TRUE,
                                     hasVideo |-> FALSE, callId |-> "call_id"]) >>
      [] msg.event = "accepting" ->
            << Msg("ACCEPTING", [status |-> "accepting"]) >>
      [] msg.event = "progress" ->
            << Msg("CALL_PROGRESS", [status |-> "progress"]) >>
      [] msg.event = "accepted" ->
            << Msg("CALL_ACCEPTED", [status |-> "accepted"]) >>
      [] msg.event = "hangup" ->
            << Msg("CALL_ENDED", [reason |-> "reason", code |-> 200]) >>
      [] OTHER -> << >>

sipMessages(msg, closureCallState) ==
    IF hasError(msg) THEN << sipErrorMessage >>
    ELSE IF variant = "basic" THEN << sipStatusMessage(msg, closureCallState) >>
    ELSE sipEventMessages(msg)

\* sipPlugin?.handleRemoteJsep: in the switch (tracks copy, progress and
\* accepted) and at the end of the handler
sipJsepCalls(msg, closurePlugin) ==
    IF hasError(msg) \/ ~msg.jsep \/ closurePlugin = NoHandle THEN << >>
    ELSE (IF variant = "tracks" /\ msg.event \in {"progress", "accepted"}
          THEN << Call(closurePlugin, "handleRemoteJsep") >> ELSE << >>)
         \o << Call(closurePlugin, "handleRemoteJsep") >>

handleSipMessage(msg, closurePlugin, closureCallState) ==
    /\ callState' = set(callState, sipCallState(msg))
    /\ isRegistered' = set(isRegistered, sipIsRegistered(msg))
    /\ currentCall' = set(currentCall, sipCurrentCall(msg))
    /\ out' = sipMessages(msg, closureCallState)
    /\ req' = sipJsepCalls(msg, closurePlugin)

PluginMessages == [event : PluginEvents, error : BOOLEAN, jsep : BOOLEAN]

\* the plugin of the live session delivers a message
pluginLive == attach = "attached" /\ session = "up"

\* the handle of the live session: janus.attach of session n gives handle n
liveHandle == janus

PluginMessage ==
    /\ UNCHANGED trackVars
    /\ pluginLive
    /\ \E msg \in PluginMessages :
         /\ handleSipMessage(msg, sipPluginAtFirstRender, callStateAtFirstRender)
         /\ op' = [name |-> "onmessage", msg |-> msg]
         /\ callInProgress' = (callInProgress /\ (hasError(msg) \/ msg.event # "hangup"))
         /\ registeredOn' = IF ~hasError(msg) /\ msg.event = "registered"
                            THEN liveHandle ELSE registeredOn
    /\ UNCHANGED << variant, mounted, sipPlugin, sipCredentials >>
    /\ UNCHANGED << libVars, failRun, schedRun, sendVars >>
    /\ messageEffectRuns(FALSE)

\* oncleanup
PluginCleanup ==
    /\ pluginLive
    /\ out' = << Msg("SIP_CLEANUP", EmptyPayload) >>
    /\ callState' = set(callState, "cleaned")
    /\ currentCall' = set(currentCall, NoCall)
    /\ req' = << >>
    /\ op' = [name |-> "oncleanup"]
    /\ callInProgress' = FALSE
    /\ IF variant = "tracks"
       THEN /\ localTracks' = set(localTracks, NoTracks)
            /\ remoteTracks' = set(remoteTracks, NoTracks)
            /\ localVideos' = set(localVideos, 0)
            /\ remoteVideos' = set(remoteVideos, 0)
       ELSE UNCHANGED trackVars
    /\ UNCHANGED << variant, mounted, sipPlugin, isRegistered, sipCredentials >>
    /\ UNCHANGED << libVars, runVars, sendVars >>
    /\ messageEffectRuns(FALSE)

(***************************************************************************)
(* onlocaltrack, onremotetrack (tracks copy): the track registry           *)
(***************************************************************************)
\* track.id of the tracks the plugin reports: "{a}", "a" and "b"
TrackIds == { <<"{","a","}">>, <<"a">>, <<"b">> }
TrackKinds == {"audio", "video"}
Tracks == [id : TrackIds, kind : TrackKinds]
\* the remote tracks the plugin reports, and their mid
RemoteTracks == [id : { <<"b">> }, kind : TrackKinds]
Mids == {"0", "1"}

\* track.id.replace(/[{}]/g, "")
IsNoBrace(c) == c \notin {"{", "}"}
trackIdOf(id) == SelectSeq(id, IsNoBrace)

\* new MediaStream([track])
MediaStream(track) == [tracks |-> << track >>]

\* mutant: the entry is not deleted
trackRemovedKeepsEntry(tracks, key) == tracks

\* const newTracks = { ...prev }; delete newTracks[key]; return newTracks
trackRemoved(tracks, key) == [k \in DOMAIN tracks \ {key} |-> tracks[k]]

\* { ...prev, [key]: stream }
trackAdded(tracks, key, stream) ==
    [k \in DOMAIN tracks \cup {key} |-> IF k = key THEN stream ELSE tracks[k]]

\* setLocalVideos / setRemoteVideos: only video tracks are counted
videosAfter(videos, track, on) ==
    IF track.kind # "video" THEN videos
    ELSE IF on THEN videos + 1 ELSE videos - 1

\* history: the step before this one removed the entry of the same key
lastTrackStep(name, key) ==
    IF op.name = name /\ op.key = key /\ ~op.on /\ op.had THEN "removal" ELSE "other"

\* onlocaltrack: (track, on) => ...
LocalTrack ==
    /\ pluginLive
    /\ variant = "tracks"
    /\ \E track \in Tracks, on \in BOOLEAN :
         /\ videosAfter(localVideos, track, on) \in -MaxVideos..MaxVideos
         /\ localVideos' = set(localVideos, videosAfter(localVideos, track, on))
         /\ localTracks' =
               set(localTracks,
                   IF on THEN trackAdded(localTracks, trackIdOf(track.id), MediaStream(track))
                   ELSE trackRemoved(localTracks, trackIdOf(track.id)))
         /\ out' = IF on
                   THEN << Msg("LOCAL_TRACK_READY",
                               [kind |-> track.kind, trackId |-> trackIdOf(track.id),
                                state |-> "added"]) >>
                   ELSE << >>
         /\ op' = [name |-> "onlocaltrack", track |-> track, on |-> on,
                   key |-> trackIdOf(track.id),
                   had |-> trackIdOf(track.id) \in DOMAIN localTracks,
                   follows |-> lastTrackStep("onlocaltrack", trackIdOf(track.id))]
    /\ req' = << >>
    /\ readyOut' = FALSE
    /\ UNCHANGED << remoteTracks, remoteVideos, callInProgress >>
    /\ UNCHANGED << variant, mounted, appVars, libVars, runVars, sendVars >>

\* onremotetrack: (track, mid, on) => ...
RemoteTrack ==
    /\ pluginLive
    /\ variant = "tracks"
    /\ \E track \in RemoteTracks, mid \in Mids, on \in BOOLEAN :
         /\ videosAfter(remoteVideos, track, on) \in -MaxVideos..MaxVideos
         /\ remoteVideos' = set(remoteVideos, videosAfter(remoteVideos, track, on))
         /\ remoteTracks' =
               set(remoteTracks,
                   IF on THEN trackAdded(remoteTracks, mid, MediaStream(track))
                   ELSE trackRemoved(remoteTracks, mid))
         /\ out' = IF on
                   THEN << Msg("REMOTE_TRACK_READY",
                               [kind |-> track.kind, mid |-> mid, state |-> "added"]) >>
                   ELSE << >>
         /\ op' = [name |-> "onremotetrack", track |-> track, on |-> on, key |-> mid,
                   had |-> mid \in DOMAIN remoteTracks,
                   follows |-> lastTrackStep("onremotetrack", mid)]
    /\ req' = << >>
    /\ readyOut' = FALSE
    /\ UNCHANGED << localTracks, localVideos, callInProgress >>
    /\ UNCHANGED << variant, mounted, appVars, libVars, runVars, sendVars >>

(***************************************************************************)
(* createOffer callbacks                                                   *)
(***************************************************************************)
\* success: (jsep) => ...
OfferSuccess ==
    /\ UNCHANGED << callInProgress, trackVars >>
    /\ \E c \in BagToSet(offers) :
         /\ req' = << Send(c.handle, callRequest(c)) >>
         /\ out' = << Msg("CALL_INITIATED",
                          [phoneNumber |-> c.phoneNumber, callState |-> "calling"]) >>
         /\ op' = [name |-> "offerSuccess", offer |-> c]
         /\ offers' = offers (-) SetToBag({c})
    /\ readyOut' = FALSE
    /\ UNCHANGED << variant, mounted, appVars, runVars, sendVars >>
    /\ UNCHANGED << janus, reconnectAttempts, session, attach, initTimers >>

\* mutant: the error callback leaves the call state as it is
offerErrorCallStateKept == callState

\* error: setCallState("error")
offerErrorCallState == "error"

\* error: (error) => ...
OfferError ==
    /\ UNCHANGED trackVars
    /\ \E c \in BagToSet(offers) :
         /\ out' = << Msg("CALL_ERROR", [error |-> "err", callState |-> "error"]) >>
         /\ op' = [name |-> "offerError", offer |-> c]
         /\ callInProgress' = (callInProgress /\ BagCardinality(offers) > 1)
         /\ offers' = offers (-) SetToBag({c})
    /\ callState' = set(callState, offerErrorCallState)
    /\ req' = << >>
    /\ readyOut' = FALSE
    /\ UNCHANGED << variant, mounted, sipPlugin, currentCall, isRegistered, sipCredentials >>
    /\ UNCHANGED << janus, reconnectAttempts, session, attach, initTimers >>
    /\ UNCHANGED << runVars, sendVars >>

(***************************************************************************)
(* initializeJanus, attachSipPlugin and the session callbacks              *)
(***************************************************************************)
\* initializeJanus(): setCallState("initializing"); janus = new Janus({...})
initializeJanus ==
    /\ janus < MaxSessions
    /\ callState' = set(callState, "initializing")
    /\ janus' = janus + 1
    /\ session' = "creating"

\* mutant: the code of the attach error
janusErrorMessageAttachCode ==
    Msg("JANUS_ERROR",
        [error |-> "err",
         errorDetails |-> [code |-> 501, message |-> "Failed to create Janus session"]])

janusErrorMessage ==
    Msg("JANUS_ERROR",
        [error |-> "err",
         errorDetails |-> [code |-> 500, message |-> "Failed to create Janus session"]])

attachErrorMessage ==
    Msg("SIP_ERROR",
        [error |-> "err",
         errorDetails |-> [code |-> 501, message |-> "Failed to attach SIP plugin"]])

\* mutant: the bound is not tested
reconnectScheduledUnbounded == TRUE

\* mutant: <= for <
reconnectScheduledInclusive == reconnectAttempts <= MAX_RECONNECT_ATTEMPTS

\* the error callback starts a reconnection timer
reconnectScheduled == reconnectAttempts < MAX_RECONNECT_ATTEMPTS

\* mutant: the increment is missing
reconnectAttemptsNotCounted == reconnectAttempts

\* reconnectAttempts++
reconnectAttemptsAfterError == reconnectAttempts + 1

\* setTimeout(initializeJanus, 5000)
reconnectTimer == [callback |-> "initializeJanus", delay |-> ReconnectDelay]

\* mutant: the reset is missing
reconnectAttemptsKept == reconnectAttempts

\* success: reconnectAttempts = 0
reconnectAttemptsAfterSuccess == 0

\* success: () => ... of new Janus; attachSipPlugin() calls janus.attach
SessionSuccess ==
    /\ UNCHANGED << callInProgress, trackVars >>
    /\ session = "creating"
    /\ session' = "up"
    /\ out' = << Msg("JANUS_READY", EmptyPayload) >>
    /\ reconnectAttempts' = reconnectAttemptsAfterSuccess
    /\ attach' = IF janus # NoHandle THEN "pending" ELSE attach
    /\ failRun' = 0
    /\ schedRun' = 0
    /\ UNCHANGED registeredOn
    /\ req' = << >>
    /\ op' = [name |-> "sessionSuccess"]
    /\ readyOut' = FALSE
    /\ UNCHANGED << variant, mounted, appVars, janus, initTimers, offers, sendVars >>

\* error: (error) => ... of new Janus: the session could not be created, or
\* the connection of a created session was lost
SessionError ==
    /\ UNCHANGED << callInProgress, trackVars >>
    /\ session \in {"creating", "up"}
    /\ session' = "failed"
    /\ callState' = set(callState, "error")
    /\ out' = << janusErrorMessage >>
    /\ IF reconnectScheduled
       THEN /\ reconnectAttempts' = reconnectAttemptsAfterError
            /\ initTimers' = Append(initTimers, reconnectTimer)
            /\ schedRun' = schedRun + 1
       ELSE UNCHANGED << reconnectAttempts, initTimers, schedRun >>
    /\ failRun' = failRun + 1
    /\ UNCHANGED registeredOn
    /\ req' = << >>
    /\ op' = [name |-> "sessionError", created |-> (session = "up")]
    /\ readyOut' = FALSE
    /\ UNCHANGED << variant, mounted, sipPlugin, currentCall, isRegistered,
                    sipCredentials, janus, attach, offers, sendVars >>

\* destroyed: () => ... of new Janus
\* mutant: the handle is kept
destroyedSipPluginKept == sipPlugin

\* destroyed: setSipPlugin(null)
destroyedSipPlugin == NoHandle

SessionDestroyed ==
    /\ UNCHANGED << callInProgress, trackVars >>
    /\ session \in {"up", "destroying"}
    /\ session' = "destroyed"
    /\ out' = << Msg("JANUS_DESTROYED", EmptyPayload) >>
    /\ isRegistered' = set(isRegistered, FALSE)
    /\ callState' = set(callState, "destroyed")
    /\ sipPlugin' = set(sipPlugin, destroyedSipPlugin)
    /\ req' = << >>
    /\ op' = [name |-> "destroyed"]
    /\ UNCHANGED << currentCall >>
    /\ UNCHANGED << variant, mounted, sipCredentials, janus,
                    reconnectAttempts, attach, initTimers, offers, runVars, sendVars >>
    /\ messageEffectRuns(FALSE)

\* the reconnection timer fires: setTimeout(initializeJanus, 5000)
InitTimerFire ==
    /\ UNCHANGED << callInProgress, trackVars >>
    /\ initTimers # << >>
    /\ initTimers' = Tail(initTimers)
    /\ initializeJanus
    /\ out' = << >>
    /\ req' = << >>
    /\ op' = [name |-> "initializeJanus"]
    /\ readyOut' = FALSE
    /\ UNCHANGED << variant, mounted, sipPlugin, currentCall, isRegistered,
                    sipCredentials, reconnectAttempts, attach, offers, runVars, sendVars >>

\* success: (pluginHandle) => ... of janus.attach
AttachSuccess ==
    /\ UNCHANGED << callInProgress, trackVars >>
    /\ attach = "pending"
    /\ session = "up"
    /\ attach' = "attached"
    /\ sipPlugin' = set(sipPlugin, janus)
    /\ out' = << Msg("SIP_READY", EmptyPayload) >>
    /\ callState' = set(callState, "ready")
    /\ req' = << >>
    /\ op' = [name |-> "attachSuccess"]
    /\ UNCHANGED << isRegistered, currentCall >>
    /\ UNCHANGED << variant, mounted, sipCredentials, janus,
                    reconnectAttempts, session, initTimers, offers, runVars, sendVars >>
    /\ messageEffectRuns(FALSE)

\* error: (error) => ... of janus.attach
AttachError ==
    /\ UNCHANGED << callInProgress, trackVars >>
    /\ attach = "pending"
    /\ attach' = "failed"
    /\ out' = << attachErrorMessage >>
    /\ req' = << >>
    /\ op' = [name |-> "attachError"]
    /\ readyOut' = FALSE
    /\ UNCHANGED << variant, mounted, appVars, janus, reconnectAttempts, session,
                    initTimers, offers, runVars, sendVars >>

(***************************************************************************)
(* Unmount: the cleanup of the effect with the empty dependency list       *)
(***************************************************************************)
\* The cleanup closes over the sipPlugin of the first render; janus is the
\* variable of the effect, shared with initializeJanus.
Unmount ==
    /\ UNCHANGED << callInProgress, trackVars >>
    /\ mounted
    /\ mounted' = FALSE
    /\ out' = << Msg("APP_UNMOUNTED", EmptyPayload) >>
    /\ req' = (IF sipPluginAtFirstRender # NoHandle
               THEN << Call(sipPluginAtFirstRender, "detach") >> ELSE << >>)
              \o (IF janus # NoHandle THEN << Call(janus, "destroy") >> ELSE << >>)
    /\ session' = IF janus # NoHandle /\ session = "up" THEN "destroying" ELSE session
    /\ op' = [name |-> "unmount"]
    /\ readyOut' = FALSE
    /\ UNCHANGED << variant, appVars, janus, reconnectAttempts, attach, initTimers, offers,
                    runVars, sendVars >>

(***************************************************************************)
(* sendToWebViewParent                                                     *)
(*                                                                         *)
(* It reads and writes nothing of the component's state. `tries` and       *)
(* `first` are not in the code: they count the attempts made for a message *)
(* and keep the message of its first attempt; `overtaken` records that a   *)
(* message sent later has been delivered while this one waited for its     *)
(* retry. Timers of equal delay fire in the order they were started.       *)
(***************************************************************************)
\* mutant: >= for >
retryScheduledAtZero(retryCount) == retryCount >= 0

\* catch: if (retryCount > 0) setTimeout(...)
retryScheduled(retryCount) == retryCount > 0

\* what the try block does with the bridge as it is: "ok" posts the message,
\* "absent" skips the call (optional chaining), "throws" enters the catch
postOutcome == bridge

sendRetryTimer(message, retryCount, tries, first, overtaken) ==
    [message |-> message, retryCount |-> retryCount - 1, delay |-> SendRetryDelay,
     tries |-> tries, first |-> first, overtaken |-> overtaken]

\* history: the messages of the pending timers were all sent before a message
\* that the container has now received at its first attempt
Overtaken(pending) ==
    [i \in 1..Len(pending) |-> [pending[i] EXCEPT !.overtaken = TRUE]]

sendToWebViewParent(pending, message, retryCount, tries, first, overtaken) ==
    /\ attempt' = [message |-> message, retryCount |-> retryCount, tries |-> tries,
                   first |-> first, outcome |-> postOutcome,
                   scheduled |-> (postOutcome = "throws" /\ retryScheduled(retryCount)),
                   overtaken |-> overtaken]
    /\ timers' = IF postOutcome = "throws" /\ retryScheduled(retryCount)
                 THEN Append(pending,
                             sendRetryTimer(message, retryCount, tries, first, overtaken))
                 ELSE IF postOutcome = "ok" /\ tries = 1
                      THEN Overtaken(pending)
                      ELSE pending

\* messages handlers pass to sendToWebViewParent
SentMessages ==
    { Msg("REACT_APP_READY", EmptyPayload),
      Msg("CALL_ERROR", [error |-> "Not registered with SIP server"]),
      janusErrorMessage }

\* a handler calls sendToWebViewParent(message)
SendMessage ==
    /\ UNCHANGED << callInProgress, trackVars >>
    /\ Len(timers) < MaxTimers
    /\ \E message \in SentMessages :
         sendToWebViewParent(timers, message, DefaultRetryCount, 1, message, FALSE)
    /\ UNCHANGED << bridge, variant, mounted, appVars, libVars, stepVars, runVars >>

\* a retry timer fires: sendToWebViewParent(message, retryCount - 1)
SendTimerFire ==
    /\ UNCHANGED << callInProgress, trackVars >>
    /\ timers # << >>
    /\ sendToWebViewParent(Tail(timers), Head(timers).message, Head(timers).retryCount,
                           Head(timers).tries + 1, Head(timers).first,
                           Head(timers).overtaken)
    /\ UNCHANGED << bridge, variant, mounted, appVars, libVars, stepVars, runVars >>

\* the container installs or removes window.ReactNativeWebView, or its
\* postMessage starts or stops throwing
BridgeChange ==
    /\ UNCHANGED << callInProgress, trackVars >>
    /\ bridge' \in {"ok", "absent", "throws"} \ {bridge}
    /\ UNCHANGED << timers, attempt, variant, mounted, appVars, libVars, stepVars, runVars >>

(***************************************************************************)
(* The component after its first render and effects                        *)
(***************************************************************************)
Init ==
    /\ variant \in Variants
    /\ mounted = TRUE
    /\ sipPlugin = sipPluginAtFirstRender
    /\ callState = "initializing"
    /\ currentCall = NoCall
    /\ isRegistered = FALSE
    /\ sipCredentials = NoCreds
    /\ janus = 1
    /\ reconnectAttempts = 0
    /\ session = "creating"
    /\ attach = "none"
    /\ initTimers = << >>
    /\ offers = EmptyBag
    /\ op = [name |-> "mount"]
    /\ out = << Msg("REACT_APP_READY", EmptyPayload), Msg("APP_MOUNTED", EmptyPayload) >>
    /\ readyOut = FALSE
    /\ req = << >>
    /\ failRun = 0
    /\ schedRun = 0
    /\ registeredOn = NoHandle
    /\ bridge = "ok"
    /\ timers = << >>
    /\ attempt = NoAttempt
    /\ callInProgress = FALSE
    /\ localTracks = NoTracks
    /\ remoteTracks = NoTracks
    /\ localVideos = 0
    /\ remoteVideos = 0

\* One session: the host messages, the plugin callbacks and the callbacks of
\* the first session. What follows the firing of a reconnection timer is
\* explored by SpecReconnect.
Next ==
    \/ HostMessage
    \/ PluginMessage
    \/ PluginCleanup
    \/ OfferSuccess
    \/ OfferError
    \/ SessionSuccess
    \/ SessionError
    \/ SessionDestroyed
    \/ AttachSuccess
    \/ AttachError

Spec == Init /\ [][Next]_vars

(***************************************************************************)
(* The session lifecycle, reconnection and unmount included, without the   *)
(* host and plugin messages: these leave janus, reconnectAttempts, the     *)
(* session and the reconnection timers alone.                              *)
(***************************************************************************)
InitReconnect ==
    /\ variant \in Variants
    /\ mounted = TRUE
    /\ sipPlugin = sipPluginAtFirstRender
    /\ callState = "initializing"
    /\ currentCall = NoCall
    /\ isRegistered = FALSE
    /\ sipCredentials = NoCreds
    /\ janus = 1
    /\ reconnectAttempts = 0
    /\ session = "creating"
    /\ attach = "none"
    /\ initTimers = << >>
    /\ offers = EmptyBag
    /\ op = [name |-> "mount"]
    /\ out = << Msg("REACT_APP_READY", EmptyPayload), Msg("APP_MOUNTED", EmptyPayload) >>
    /\ readyOut = FALSE
    /\ req = << >>
    /\ failRun = 0
    /\ schedRun = 0
    /\ registeredOn = NoHandle
    /\ bridge = "ok"
    /\ timers = << >>
    /\ attempt = NoAttempt
    /\ callInProgress = FALSE
    /\ localTracks = NoTracks
    /\ remoteTracks = NoTracks
    /\ localVideos = 0
    /\ remoteVideos = 0

NextReconnect ==
    \/ SessionSuccess
    \/ SessionError
    \/ SessionDestroyed
    \/ InitTimerFire
    \/ AttachSuccess
    \/ AttachError
    \/ Unmount

SpecReconnect == InitReconnect /\ [][NextReconnect]_vars

(***************************************************************************)
(* The plugin's messages across sessions: a session is created, lost and   *)
(* created again by the reconnection timer, and the plugin of the live     *)
(* session reports its events.                                             *)
(***************************************************************************)
NextRecreate ==
    \/ SessionSuccess
    \/ SessionError
    \/ InitTimerFire
    \/ AttachSuccess
    \/ PluginMessage

SpecRecreate == InitReconnect /\ [][NextRecreate]_vars

(***************************************************************************)
(* The track registry of the tracks copy: the track callbacks and the      *)
(* cleanup of the plugin handle, once the handle is attached.              *)
(***************************************************************************)
NextTracks ==
    \/ SessionSuccess
    \/ AttachSuccess
    \/ LocalTrack
    \/ RemoteTrack
    \/ PluginCleanup
    \/ SessionDestroyed

SpecTracks == Init /\ [][NextTracks]_vars

(***************************************************************************)
(* The delivery of host messages: sendToWebViewParent and its retry timers *)
(***************************************************************************)
NextSend ==
    \/ SendMessage
    \/ SendTimerFire
    \/ BridgeChange

SpecSend == Init /\ [][NextSend]_vars

(***************************************************************************)
(* Properties                                                              *)
(***************************************************************************)
HasSipPrefix(s) == Len(s) >= Len(SipPrefix) /\ SubSeq(s, 1, Len(SipPrefix)) = SipPrefix
AfterSipPrefix(s) == SubSeq(s, Len(SipPrefix) + 1, Len(s))

ErrorTypes ==
    { "REGISTRATION_ERROR", "CALL_ERROR", "SIP_ERROR", "JANUS_ERROR", "JSEP_ERROR",
      "DETACH_ERROR" }

NoErrorMessage(msgs) == \A i \in 1..Len(msgs) : msgs[i].type \notin ErrorTypes

\* the step is the plugin message `registered` / `unregistered`, without error
RegisteredEvent(o) == o.name = "onmessage" /\ ~o.msg.error /\ o.msg.event = "registered"
UnregisteredEvent(o) == o.name = "onmessage" /\ ~o.msg.error /\ o.msg.event = "unregistered"

\* C1: a MAKE_CALL host message received while the registered flag is false
\* produces exactly one CALL_ERROR host message, creates no offer and forwards
\* no request to the plugin. The flag is false at the start, becomes true only
\* by a `registered` plugin event, and is false after every `unregistered`
\* plugin event and every session destroy.
C1_MakeCallUnregistered ==
    [][ /\ (op'.name = "MAKE_CALL" /\ ~isRegistered) =>
              /\ Len(out') = 1
              /\ out'[1].type = "CALL_ERROR"
              /\ req' = << >>
              /\ offers' = offers
        /\ (isRegistered' /\ ~isRegistered) => RegisteredEvent(op')
        /\ (UnregisteredEvent(op') \/ op'.name = "destroyed") => ~isRegistered'
      ]_vars

\* C1 witness: a MAKE_CALL with a phone number, on an attached handle, was
\* answered by CALL_ERROR because the flag is false
C1_Witness ==
    /\ op.name = "MAKE_CALL"
    /\ op.phoneNumber = PhoneExample
    /\ sipPlugin # NoHandle
    /\ ~isRegistered
    /\ out = << Msg("CALL_ERROR", [error |-> "Not registered with SIP server"]) >>
    /\ req = << >>

\* C2: a REGISTER_SIP host message received while the registered flag is true
\* produces exactly one REGISTRATION_ERROR host message, forwards no request
\* to the plugin and leaves the stored credentials and the call state as
\* they were.
C2_RegisterWhileRegistered ==
    [][ (op'.name = "REGISTER_SIP" /\ isRegistered) =>
              /\ Len(out') = 1
              /\ out'[1].type = "REGISTRATION_ERROR"
              /\ req' = << >>
              /\ sipCredentials' = sipCredentials
              /\ callState' = callState
      ]_vars

\* C2 witness: a REGISTER_SIP with new credentials was refused while registered
C2_Witness ==
    /\ op.name = "REGISTER_SIP"
    /\ op.creds # NoCreds
    /\ isRegistered
    /\ sipPlugin # NoHandle
    /\ out = << Msg("REGISTRATION_ERROR", [error |-> "Already registered with SIP server"]) >>

\* C3: for every stored proxy "sip:<domain>" and every non-empty phone number
\* n, the call request forwarded after the offer succeeded has the uri
\* "sip:" + n + "@" + <domain>, <domain> being the text after the "sip:" the
\* proxy starts with.
C3_CallUriFromProxy ==
    (op.name = "offerSuccess" /\ HasSipPrefix(op.offer.proxy)) =>
        /\ Len(req) = 1
        /\ req[1].message.request = "call"
        /\ req[1].message.uri =
              SipPrefix \o op.offer.phoneNumber \o <<"@">> \o AfterSipPrefix(op.offer.proxy)

\* C4: a plugin message with a populated error field results in exactly one
\* SIP_ERROR host message and the call state `error`, and in no other host
\* message, whatever event name or negotiation payload it carries.
C4_PluginErrorMessage ==
    (op.name = "onmessage" /\ op.msg.error) =>
        /\ out = << Msg("SIP_ERROR", [error |-> "err", callState |-> "error"]) >>
        /\ ~readyOut
        /\ callState = "error"

\* C4 witness: a plugin message carrying an error, the event name `registered`
\* and a negotiation payload was processed
C4_Witness ==
    /\ op.name = "onmessage"
    /\ op.msg = [event |-> "registered", error |-> TRUE, jsep |-> TRUE]
    /\ callState = "error"
    /\ Len(out) = 1

\* C5: in a run of consecutive session failures at most 3 re-initializations
\* are scheduled, each by a timer of 5000 ms started by a failure of the run.
C5_AtMostThreeReconnects ==
    /\ schedRun <= 3
    /\ schedRun <= failRun
    /\ \A i \in 1..Len(initTimers) :
          initTimers[i] = [callback |-> "initializeJanus", delay |-> 5000]

\* C5 witness: four failures in a row, three re-initializations scheduled
C5_Witness == failRun = 4 /\ schedRun = 3

\* C6 as stated: after the 3rd consecutive session failure, the failure of
\* the initial attempt being the 1st, no initialization is scheduled.
C6_NoRetryAfterThirdFailure ==
    (op.name = "sessionError" /\ failRun = 3) => initTimers = << >>

\* C6 amended: after the 4th consecutive session failure (the initial attempt
\* and its 3 retries) no initialization is scheduled or in progress.
C6_NoRetryAfterFourthFailure ==
    failRun >= 4 => (initTimers = << >> /\ session = "failed")

\* C6 witness: the 4th failure in a row has happened, the counter is at its
\* bound and nothing is pending
C6_Witness ==
    /\ op.name = "sessionError"
    /\ failRun = 4
    /\ reconnectAttempts = MAX_RECONNECT_ATTEMPTS
    /\ initTimers = << >>

\* C7: a message whose every send attempt throws is retried at most 3 times
\* after the first attempt, each retry by a timer of 1000 ms, and is dropped
\* after the last; every attempt carries the message of the first.
C7_SendRetriesBounded ==
    /\ attempt.tries <= 1 + 3
    /\ (attempt.outcome = "throws" /\ attempt.tries = 1 + 3) => ~attempt.scheduled
    /\ attempt.message = attempt.first
    /\ \A i \in 1..Len(timers) :
          /\ timers[i].message = timers[i].first
          /\ timers[i].delay = 1000
          /\ timers[i].tries <= 3

\* C7 witness: the 3rd retry of a CALL_ERROR threw and no timer was started
C7_Witness ==
    /\ attempt.tries = 4
    /\ attempt.outcome = "throws"
    /\ ~attempt.scheduled
    /\ attempt.message = Msg("CALL_ERROR", [error |-> "Not registered with SIP server"])

\* C8: a send while the container bridge object is absent counts as a
\* delivery failure: while retries are left, a retry timer is started.
C8_AbsentBridgeIsRetried ==
    (attempt.outcome = "absent" /\ attempt.retryCount > 0) => attempt.scheduled

\* C9: an UNREGISTER_SIP host message received while the registered flag is
\* false, or while no plugin handle is attached, forwards no request, emits
\* no host message and leaves call state, registered flag, current call and
\* stored credentials as they were, however often it is repeated.
C9_UnregisterWhenNotRegistered ==
    [][ (op'.name = "UNREGISTER_SIP" /\ (~isRegistered \/ sipPlugin = NoHandle)) =>
              /\ req' = << >>
              /\ out' = << >>
              /\ ~readyOut'
              /\ UNCHANGED << callState, isRegistered, currentCall, sipCredentials, sipPlugin >>
      ]_vars

\* C9 witness: an UNREGISTER_SIP was ignored on an attached handle that is
\* not registered
C9_Witness ==
    /\ op.name = "UNREGISTER_SIP"
    /\ sipPlugin # NoHandle
    /\ ~isRegistered
    /\ req = << >>
    /\ out = << >>

\* C10: a host message of type WEBVIEW_READY, or of a type other than
\* REGISTER_SIP, UNREGISTER_SIP, MAKE_CALL and END_CALL, forwards no request
\* to the plugin, emits no error host message and leaves call state,
\* registered flag, current call and stored credentials as they were.
C10_IgnoredHostMessage ==
    [][ (op'.name \in HostTypes \ {"REGISTER_SIP", "UNREGISTER_SIP", "MAKE_CALL", "END_CALL"}) =>
              /\ req' = << >>
              /\ NoErrorMessage(out')
              /\ UNCHANGED << callState, isRegistered, currentCall, sipCredentials >>
      ]_vars

\* C10 witness: a message of an unknown type was ignored while registered,
\* with a call in progress
C10_Witness ==
    /\ op.name = "PING"
    /\ isRegistered
    /\ currentCall # NoCall
    /\ out = << >>
    /\ req = << >>

\* C11: an END_CALL host message forwards a `hangup` request only if a call
\* started by MAKE_CALL is in progress: its offer did not fail and no `hangup`
\* plugin event and no plugin cleanup came since it was started.
C11_HangupOnlyForCallInProgress ==
    (op.name = "END_CALL" /\ ~callInProgress) => req = << >>

\* C12: in the track registry (local tracks keyed by track id, remote tracks
\* keyed by mid) a track-removed event leaves no entry for its identifier, and
\* a track-added event leaves exactly one entry for its identifier, holding
\* the stream of the added track, also when it follows the removal of an
\* entry of the same identifier.
C12_TrackRegistry ==
    [][ /\ (op'.name = "onlocaltrack" /\ ~op'.on) => op'.key \notin DOMAIN localTracks'
        /\ (op'.name = "onremotetrack" /\ ~op'.on) => op'.key \notin DOMAIN remoteTracks'
        /\ (op'.name = "onlocaltrack" /\ op'.on) =>
              /\ Cardinality({k \in DOMAIN localTracks' : k = op'.key}) = 1
              /\ localTracks'[op'.key] = [tracks |-> << op'.track >>]
        /\ (op'.name = "onremotetrack" /\ op'.on) =>
              /\ Cardinality({k \in DOMAIN remoteTracks' : k = op'.key}) = 1
              /\ remoteTracks'[op'.key] = [tracks |-> << op'.track >>]
        /\ (op'.name = "onlocaltrack" /\ ~op'.on /\ op.name = "onlocaltrack" /\ op.on
               /\ op.key = op'.key) => DOMAIN localTracks' = DOMAIN localTracks \ {op'.key}
      ]_vars

\* C12 witness: the local track "{a}" was added again right after the entry of
\* its identifier "a" was removed; the registry holds one entry for "a"
C12_Witness ==
    /\ op.name = "onlocaltrack"
    /\ op.on
    /\ op.track.id = <<"{", "a", "}">>
    /\ op.key = <<"a">>
    /\ op.follows = "removal"
    /\ DOMAIN localTracks = { <<"a">>, <<"b">> }

\* the requests of a step that are `call` requests sent to the plugin
CallRequests(r) ==
    { i \in 1..Len(r) : r[i].method = "send" /\ r[i].message.request = "call" }

C14_RegisterWithoutHandle ==
    [][ (op'.name = "REGISTER_SIP" /\ sipPlugin = NoHandle) =>
              /\ Len(out') = 1
              /\ out'[1].type = "REGISTRATION_ERROR"
              /\ req' = << >>
              /\ callState' = callState
              /\ sipCredentials' = sipCredentials
      ]_vars

\* C14 witness: after the session was destroyed, a REGISTER_SIP with
\* credentials was refused for want of a handle
C14_Witness ==
    /\ op.name = "REGISTER_SIP"
    /\ op.creds # NoCreds
    /\ sipPlugin = NoHandle
    /\ session = "destroyed"
    /\ callState = "destroyed"
    /\ sipCredentials = NoCreds
    /\ out = << Msg("REGISTRATION_ERROR", [error |-> "SIP plugin not found"]) >>
    /\ req = << >>

\* C15: a makeCall that passes its guards creates one offer and forwards no
\* `call` request yet. When the offer succeeds, one `call` request is forwarded
\* and exactly one CALL_INITIATED host message is emitted; when it fails, no
\* request is forwarded, exactly one CALL_ERROR host message is emitted and
\* the call state becomes `error`. Either callback consumes the offer, and a
\* `call` request is forwarded by no other step.
C15_CallFollowsOffer ==
    [][ /\ (op'.name = "MAKE_CALL" /\ isRegistered /\ sipPlugin # NoHandle
              /\ op'.phoneNumber \notin {Undefined, EmptyString}) =>
              /\ req' = << Call(sipPlugin, "createOffer") >>
              /\ BagCardinality(offers') = BagCardinality(offers) + 1
        /\ op'.name = "offerSuccess" =>
              /\ Len(req') = 1
              /\ CallRequests(req') = {1}
              /\ Len(out') = 1
              /\ out'[1].type = "CALL_INITIATED"
              /\ BagCardinality(offers') = BagCardinality(offers) - 1
        /\ op'.name = "offerError" =>
              /\ req' = << >>
              /\ Len(out') = 1
              /\ out'[1].type = "CALL_ERROR"
              /\ callState' = "error"
              /\ BagCardinality(offers') = BagCardinality(offers) - 1
        /\ CallRequests(req') # {} => op'.name = "offerSuccess"
      ]_vars

\* C15 witness: the offer of a call to the documented number failed
C15_Witness ==
    /\ op.name = "offerError"
    /\ op.offer.phoneNumber = PhoneExample
    /\ callState = "error"
    /\ out = << Msg("CALL_ERROR", [error |-> "err", callState |-> "error"]) >>
    /\ req = << >>
    /\ offers = EmptyBag

\* C16: on unmount after a plugin handle was attached, a detach is issued on
\* the attached handle and then a destroy on the session, in this order.
C16_DetachBeforeDestroy ==
    (op.name = "unmount" /\ sipPlugin # NoHandle) =>
        /\ Len(req) = 2
        /\ req[1] = Call(sipPlugin, "detach")
        /\ req[2].method = "destroy"

\* C17: every plugin message (onmessage) results in exactly one host message
\* when it is processed, whatever event name it carries, also an event name
\* without dedicated handling and no event name at all.
C17_OneHostMessagePerPluginMessage ==
    op.name = "onmessage" => Len(out) = 1

\* the call states of the specification
DocumentedCallStates ==
    { "not_started", "initializing", "ready", "registering", "registered", "calling",
      "ringing", "connected", "ended", "error", "destroyed", "cleaned" }

\* C18: in every reachable state the call state is one of the enumerated
\* values, whatever event names the plugin messages carry.
C18_CallStateEnumerated == callState \in DocumentedCallStates

\* C19: an accepted REGISTER_SIP with payload P (a handle is attached, the
\* registered flag is false) stores the credentials S overridden field by
\* field by P, with register = true, the fields absent from P keeping their
\* value of S, and forwards one `register` request with exactly the stored
\* values; a rejected REGISTER_SIP leaves the stored credentials as they were.
C19_CredentialsMerged ==
    [][ op'.name = "REGISTER_SIP" =>
          IF sipPlugin # NoHandle /\ ~isRegistered
          THEN /\ \A f \in CredFields \ {"register"} :
                     sipCredentials'[f] =
                        IF op'.creds[f] # Undefined THEN op'.creds[f] ELSE sipCredentials[f]
               /\ sipCredentials'.register = JsTrue
               /\ req' = << Send(sipPlugin,
                                 [request |-> "register",
                                  username |-> sipCredentials'.username,
                                  display_name |-> sipCredentials'.displayName,
                                  authuser |-> sipCredentials'.authuser,
                                  secret |-> sipCredentials'.secret,
                                  proxy |-> sipCredentials'.proxy,
                                  user_agent |-> sipCredentials'.userAgent,
                                  register |-> JsTrue]) >>
          ELSE /\ sipCredentials' = sipCredentials
               /\ req' = << >>
      ]_vars

\* C19 witness: a REGISTER_SIP carrying only a proxy and register = false was
\* accepted over stored credentials: the proxy is the new one, the user name
\* the stored one, register is true
C19_Witness ==
    /\ op.name = "REGISTER_SIP"
    /\ op.creds.proxy = ProxySipHost
    /\ op.creds.username = Undefined
    /\ op.creds.register = JsFalse
    /\ sipCredentials.proxy = ProxySipHost
    /\ sipCredentials.username = <<"u", "1">>
    /\ sipCredentials.register = JsTrue
    /\ Len(req) = 1
    /\ req[1].message.proxy = ProxySipHost
    /\ req[1].message.username = <<"u", "1">>

\* the remote answer of the last plugin message was handed to the handle
JsepApplied == \E i \in 1..Len(req) : req[i].method = "handleRemoteJsep"

\* C20: when the remote negotiation answer of a plugin message is not applied
\* to the attached handle (applying it fails), exactly one JSEP_ERROR host
\* message is emitted and the call state becomes `error`.
C20_RemoteJsepFailureReported ==
    (/\ op.name = "onmessage"
     /\ ~op.msg.error
     /\ op.msg.jsep
     /\ sipPlugin # NoHandle
     /\ ~JsepApplied) =>
        /\ Cardinality({ i \in 1..Len(out) : out[i].type = "JSEP_ERROR" }) = 1
        /\ callState = "error"

\* C21 as stated: after an error-free plugin message with an event name e the
\* call state is e, for every e, `hangup` included.
C21_CallStateIsEventName ==
    (op.name = "onmessage" /\ ~op.msg.error /\ op.msg.event # NoEvent) =>
        callState = op.msg.event

\* C21 amended: after an error-free plugin message with an event name e the
\* call state is e verbatim, also for names outside the documented list and
\* whatever the state before, except that the copy with the track registry
\* leaves the call state `ended` after the event `hangup`.
C21_CallStateIsEventNameOrEnded ==
    [][ (op'.name = "onmessage" /\ ~op'.msg.error /\ op'.msg.event # NoEvent) =>
            callState' = IF variant = "tracks" /\ op'.msg.event = "hangup"
                         THEN "ended" ELSE op'.msg.event
      ]_vars

\* C21 witness: the event `registration_failed`, which is no documented call
\* state, became the call state of a component that never sent a register
C21_Witness ==
    /\ op.name = "onmessage"
    /\ op.msg = [event |-> "registration_failed", error |-> FALSE, jsep |-> FALSE]
    /\ callState = "registration_failed"
    /\ sipCredentials = NoCreds

\* C22: after a session-destroyed event, and after a plugin cleanup event,
\* the track registry (local and remote) is empty and the current call is
\* cleared.
C22_FreshRegistryAfterLifecycle ==
    op.name \in {"destroyed", "oncleanup"} =>
        /\ localTracks = NoTracks
        /\ remoteTracks = NoTracks
        /\ currentCall = NoCall

\* C23: every local or remote track event, added as well as removed, yields
\* exactly one LOCAL_TRACK_READY or REMOTE_TRACK_READY host message with the
\* kind of the track, its identifier and the state `added` or `removed`.
C23_TrackEventReported ==
    /\ op.name = "onlocaltrack" =>
          out = << Msg("LOCAL_TRACK_READY",
                       [kind |-> op.track.kind, trackId |-> op.key,
                        state |-> IF op.on THEN "added" ELSE "removed"]) >>
    /\ op.name = "onremotetrack" =>
          out = << Msg("REMOTE_TRACK_READY",
                       [kind |-> op.track.kind, mid |-> op.key,
                        state |-> IF op.on THEN "added" ELSE "removed"]) >>

\* every session attempt made so far has failed or is still being made
EveryAttemptFailed == failRun = janus - (IF session = "creating" THEN 1 ELSE 0)

\* no initialization is in progress and no reconnection timer is pending
ReconnectAtRest == initTimers = << >> /\ session # "creating"

\* C24: if every session attempt fails, the reconnection loop ends: at most 4
\* attempts are made (the first and 3 retries), after the failure of the 4th
\* no initialization is in progress and no reconnection timer is pending, and
\* from there no step starts an initialization or a timer again.
C24_ReconnectLoopEnds ==
    [][ /\ EveryAttemptFailed' => janus' <= 1 + MAX_RECONNECT_ATTEMPTS
        /\ (EveryAttemptFailed' /\ failRun' = 1 + MAX_RECONNECT_ATTEMPTS) => ReconnectAtRest'
        /\ (EveryAttemptFailed /\ failRun = 1 + MAX_RECONNECT_ATTEMPTS) =>
              /\ janus' = janus
              /\ ReconnectAtRest'
      ]_vars

\* C24 witness: 4 attempts were made and all failed; nothing is pending
C24_Witness ==
    /\ janus = 4
    /\ failRun = 4
    /\ session = "failed"
    /\ initTimers = << >>
    /\ mounted

\* C25: every session failure, that of a retry included, emits exactly one
\* JANUS_ERROR host message with errorDetails.code 500 and sets the call state
\* of the mounted component to `error`; every attach failure emits exactly
\* one SIP_ERROR host message with errorDetails.code 501 and starts no timer,
\* no session and no attach.
C25_TransportErrorsReported ==
    [][ /\ op'.name = "sessionError" =>
              /\ Len(out') = 1
              /\ out'[1].type = "JANUS_ERROR"
              /\ out'[1].payload.errorDetails.code = 500
              /\ mounted => callState' = "error"
        /\ op'.name = "attachError" =>
              /\ Len(out') = 1
              /\ out'[1].type = "SIP_ERROR"
              /\ out'[1].payload.errorDetails.code = 501
              /\ initTimers' = initTimers
              /\ janus' = janus
              /\ session' = session
              /\ attach' = "failed"
              /\ req' = << >>
      ]_vars

\* C25 witness: the 3rd retry failed and was reported like the failures
\* before it
C25_Witness ==
    /\ op.name = "sessionError"
    /\ janus = 4
    /\ failRun = 4
    /\ mounted
    /\ callState = "error"
    /\ out = << janusErrorMessage >>

\* C26: the container receives the host messages in the order the handlers
\* sent them, also when attempts throw and are retried by a timer: no message
\* is delivered after a message that was sent later.
C26_DeliveryInEventOrder ==
    ~(attempt.outcome = "ok" /\ attempt.overtaken)

\* C27: while a forwarded `register` request is unanswered (the call state
\* is still `registering`, the registered flag is false), a further
\* REGISTER_SIP host message forwards no request and is answered by a
\* REGISTRATION_ERROR.
C27_SecondRegisterRejected ==
    [][ (callState = "registering" /\ ~isRegistered /\ sipPlugin # NoHandle
            /\ op'.name = "REGISTER_SIP") =>
          /\ req' = << >>
          /\ Len(out') >= 1
          /\ out'[1].type = "REGISTRATION_ERROR"
      ]_vars

\* C28: the copy for the React Native WebView and the copy for the webkit
\* bridge forward the same plugin requests: from the same state, a REGISTER_SIP
\* message with the same credentials forwards the same requests in both, and a
\* call is placed to the same uri in both.
C28_CopiesForwardSameRequests ==
    [][ variant = "basic" =>
          /\ op'.name = "REGISTER_SIP" =>
                req' = webkitHandleRegistration(WebkitPayload(op'.creds))
          /\ op'.name = "offerSuccess" =>
                req'[1].message.uri =
                    callUri(op'.offer.phoneNumber, webkitProxyDomainOf(op'.offer.proxy))
      ]_vars

\* C29: the session's destroyed callback clears the plugin handle and the
\* registered flag; while the handle is cleared no REGISTER_SIP,
\* UNREGISTER_SIP, MAKE_CALL or END_CALL host message forwards a request to
\* the plugin, and only the success of an attach sets a handle again.
C29_NoRequestsAfterDestroyed ==
    [][ /\ op'.name = "destroyed" => (sipPlugin' = NoHandle /\ ~isRegistered')
        /\ (sipPlugin = NoHandle
               /\ op'.name \in {"REGISTER_SIP", "UNREGISTER_SIP", "MAKE_CALL", "END_CALL"}) =>
              (req' = << >> /\ offers' = offers)
        /\ (sipPlugin = NoHandle /\ sipPlugin' # NoHandle) => op'.name = "attachSuccess"
      ]_vars

\* C29 witness: END_CALL arrives after the session was destroyed during a
\* call; nothing is forwarded
C29_Witness ==
    /\ op.name = "END_CALL"
    /\ session = "destroyed"
    /\ sipPlugin = NoHandle
    /\ ~isRegistered
    /\ currentCall = PhoneExample
    /\ req = << >>

\* C30: after the unmount cleanup no session is created: the number of
\* sessions created does not grow once the component is unmounted.
C30_NoSessionAfterUnmount ==
    [][ ~mounted => janus' = janus ]_vars

\* C31: a session success resets the reconnect counter to 0, so each run of
\* consecutive failures has its own bound: in every run, the one after a
\* success included, exactly the first 3 failures start a re-initialization.
C31_CounterResetOnSuccess ==
    [][ /\ op'.name = "sessionSuccess" => reconnectAttempts' = 0
        /\ op'.name = "sessionError" =>
              /\ reconnectAttempts = schedRun
              /\ (failRun < MAX_RECONNECT_ATTEMPTS) =>
                    initTimers' = Append(initTimers, reconnectTimer)
              /\ (failRun >= MAX_RECONNECT_ATTEMPTS) => initTimers' = initTimers
      ]_vars

\* C31 witness: the first session failed, the second succeeded and was lost,
\* and the run of failures after that success was retried 3 times
C31_Witness ==
    /\ op.name = "sessionError"
    /\ janus = 5
    /\ failRun = 4
    /\ schedRun = 3
    /\ reconnectAttempts = 3

\* C32: whenever the registered flag is true, a plugin handle is attached
\* and the last `registered` event was reported by that handle, also after
\* the session was lost and created again by the reconnection timer.
C32_RegisteredOnAttachedHandle ==
    isRegistered => (sipPlugin # NoHandle /\ registeredOn = sipPlugin)

\* C33: REACT_APP_READY is emitted once per mount, by the first render: no
\* later step makes the component emit it again.
C33_ReadyEmittedOnce == ~readyOut

\* C34: an error-free plugin message that carries a jsep while a plugin handle
\* is attached makes the component call handleRemoteJsep on the attached
\* handle exactly once.
C34_RemoteJsepAppliedOnce ==
    (/\ op.name = "onmessage"
     /\ ~op.msg.error
     /\ op.msg.jsep
     /\ sipPlugin # NoHandle) =>
        Cardinality({ i \in 1..Len(req) :
                        req[i] = Call(sipPlugin, "handleRemoteJsep") }) = 1

\* C35: while an outgoing call is in progress (the current call is set, no
\* hangup and no cleanup since it was started), a further MAKE_CALL host
\* message creates no offer, forwards no request and leaves the current call
\* as it is.
C35_NoSecondCall ==
    [][ (currentCall # NoCall /\ callInProgress /\ op'.name = "MAKE_CALL") =>
          /\ offers' = offers
          /\ req' = << >>
          /\ currentCall' = currentCall
      ]_vars

====
